---- MODULE Spec2Model ----
(***************************************************************************)
(* Model of fmriprep/workflows/fieldmap.py:                                *)
(*   - create_encoding_file, the writer of topup's encoding table, run     *)
(*     statement by statement (specification Spec);                        *)
(*   - the node graph assembled by se_pair_workflow, executed by an engine *)
(*     that starts a node once every connection into it has delivered      *)
(*     (specifications SpecWf and SpecWfFair).                             *)
(***************************************************************************)
EXTENDS Integers, Sequences, FiniteSets, TLC

\* ------------------------------------------------------------------ bounds

\* Longest fieldmaps / fieldmaps_meta list passed to create_encoding_file.
MaxSeries == 2

\* Largest extent of the last dimension of an image.
MaxExtent == 2

\* ------------------------------------------------------------------ state

VARIABLES
    \* create_encoding_file
    fieldmaps,        \* list of image paths (path ids 1..n)
    fieldmaps_meta,   \* list of sidecar paths (path ids 1..n)
    pc,               \* position in create_encoding_file
    k,                \* number of (fieldmap, fieldmap_meta) pairs taken from zip
    meta,             \* the record json.load returned for the current pair
    line_values,      \* the current row
    shape,            \* nb.load(fieldmap).shape of the current pair
    i,                \* loop variable of range(shape[-1])
    parameters_file,  \* lines of parameters.txt, each the list of its fields
    row_series,       \* for each line, the pair (1-based) it was written for
    metas,            \* every record loaded so far, in order
    shapes,           \* every image shape loaded so far, in order
    err,              \* exception that left the function, "none" if none
    result,           \* value returned, "none" before the return
    \* se_pair_workflow
    started,          \* nodes whose invocation began
    done,             \* nodes whose invocation completed
    args,             \* per node, the input values it was invoked with
    inputs,           \* value held by every input port
    outputs           \* value held by every output port

encVars == <<fieldmaps, fieldmaps_meta, pc, k, meta, line_values, shape, i,
             parameters_file, row_series, metas, shapes, err, result>>
wfVars == <<started, done, args, inputs, outputs>>
vars == <<encVars, wfVars>>

\* ------------------------------------------------- create_encoding_file

letters == {"i", "j", "k", "x"}

\* PhaseEncodingDirection values a sidecar may hold, as lists of characters:
\* the empty string, every letter alone, with "-", and with "--".
Codes ==
    {<<>>} \cup {<<c>> : c \in letters} \cup {<<c, "-">> : c \in letters}
           \cup {<<c, "-", "-">> : c \in letters}

ValidCodes == {<<c>> : c \in {"i", "j", "k"}} \cup {<<c, "-">> : c \in {"i", "j", "k"}}

\* TotalReadoutTime values, in hundredths of a second.
Times == {5, 7}

Metas == [PhaseEncodingDirection : Codes, TotalReadoutTime : Times]

\* Image shapes: 3-D images and 4-D images.
Shapes ==
    {<<2, 2, z>> : z \in 2..MaxExtent} \cup {<<2, 2, 2, t>> : t \in 1..MaxExtent}

NoMeta == [PhaseEncodingDirection |-> <<>>, TotalReadoutTime |-> 0]

digit == <<"0", "1", "2", "3", "4", "5", "6", "7", "8", "9">>

\* str() of an integer in -9..9.
StrInt(n) == IF n < 0 THEN "-" \o digit[1 - n] ELSE digit[n + 1]

\* str() of the float h/100, 0 < h < 100: the shortest decimal that reads back.
StrTime(h) ==
    IF h % 10 = 0 THEN "0." \o digit[(h \div 10) + 1]
    ELSE "0." \o digit[(h \div 10) + 1] \o digit[(h % 10) + 1]

pedir_default == [c \in letters |-> IF c = "i" THEN 0 ELSE IF c = "j" THEN 1
                                    ELSE IF c = "k" THEN 2 ELSE 0]

pedir == [c \in {"i", "j", "k"} |-> IF c = "i" THEN 0 ELSE IF c = "j" THEN 1 ELSE 2]

Polarity_flipped(code) == -1 + (2 * (IF Len(code) = 2 THEN 1 ELSE 0))

\* 1 + (-2*(len(meta['PhaseEncodingDirection']) == 2))
Polarity(code) == 1 + ((-2) * (IF Len(code) = 2 THEN 1 ELSE 0))

Min(a, b) == IF a < b THEN a ELSE b

ZipLen_first(a, b) == Len(a)

\* Number of pairs zip(a, b) yields.
ZipLen(a, b) == Min(Len(a), Len(b))

\* ' '.join([str(i) for i in line_values]): the fields of the line.
Fields(lv) == <<StrInt(lv[1]), StrInt(lv[2]), StrInt(lv[3]), StrTime(lv[4])>>

EncInit ==
    /\ \E n \in 0..MaxSeries : fieldmaps = [p \in 1..n |-> p]
    /\ \E n \in 0..MaxSeries : fieldmaps_meta = [p \in 1..n |-> p]
    /\ pc = "open"
    /\ k = 0
    /\ meta = NoMeta
    /\ line_values = <<0, 0, 0, 0>>
    /\ shape = <<>>
    /\ i = 0
    /\ parameters_file = <<>>
    /\ row_series = <<>>
    /\ metas = <<>>
    /\ shapes = <<>>
    /\ err = "none"
    /\ result = "none"

\* with open('parameters.txt', 'w'): the file is created empty.
Open ==
    /\ pc = "open"
    /\ parameters_file' = <<>>
    /\ row_series' = <<>>
    /\ pc' = "zip"
    /\ UNCHANGED <<fieldmaps, fieldmaps_meta, k, meta, line_values, shape, i,
                   metas, shapes, err, result>>

\* The for statement takes the next pair, json.load reads its sidecar and the
\* row is built; an empty code or an unknown axis letter raises.
LoadMeta ==
    /\ pc = "zip"
    /\ k < ZipLen(fieldmaps, fieldmaps_meta)
    /\ \E m \in Metas :
        LET code == m.PhaseEncodingDirection IN
        /\ k' = k + 1
        /\ meta' = m
        /\ metas' = Append(metas, m)
        /\ IF Len(code) = 0
           THEN /\ err' = "IndexError"
                /\ pc' = "raised"
                /\ line_values' = <<0, 0, 0, m.TotalReadoutTime>>
           ELSE IF code[1] \notin DOMAIN pedir
           THEN /\ err' = "KeyError"
                /\ pc' = "raised"
                /\ line_values' = <<0, 0, 0, m.TotalReadoutTime>>
           ELSE /\ err' = err
                /\ pc' = "load"
                /\ line_values' =
                       [<<0, 0, 0, m.TotalReadoutTime>>
                            EXCEPT ![pedir[code[1]] + 1] = Polarity(code)]
    /\ UNCHANGED <<fieldmaps, fieldmaps_meta, shape, i, parameters_file,
                   row_series, shapes, result>>

\* nb.load(fieldmap).shape[-1] is evaluated once, for range(); an empty range
\* leads back to the for statement over the pairs.
LoadImage ==
    /\ pc = "load"
    /\ \E s \in Shapes :
        /\ shape' = s
        /\ shapes' = Append(shapes, s)
        /\ pc' = IF s[Len(s)] = 0 THEN "zip" ELSE "write"
    /\ i' = 0
    /\ UNCHANGED <<fieldmaps, fieldmaps_meta, k, meta, line_values,
                   parameters_file, row_series, metas, err, result>>

\* One pass of the inner loop: one line is written; after the last pass the
\* range is exhausted and control is back at the for statement over the pairs.
WriteRow ==
    /\ pc = "write"
    /\ i < shape[Len(shape)]
    /\ parameters_file' = Append(parameters_file, Fields(line_values))
    /\ row_series' = Append(row_series, k)
    /\ i' = i + 1
    /\ pc' = IF i + 1 = shape[Len(shape)] THEN "zip" ELSE "write"
    /\ UNCHANGED <<fieldmaps, fieldmaps_meta, k, meta, line_values, shape,
                   metas, shapes, err, result>>

\* zip is exhausted: the file is closed and its absolute path returned.
Return ==
    /\ pc = "zip"
    /\ k = ZipLen(fieldmaps, fieldmaps_meta)
    /\ pc' = "done"
    /\ result' = "parameters.txt"
    /\ UNCHANGED <<fieldmaps, fieldmaps_meta, k, meta, line_values, shape, i,
                   parameters_file, row_series, metas, shapes, err>>

EncNext == Open \/ LoadMeta \/ LoadImage \/ WriteRow \/ Return

\* ------------------------------------------------------ se_pair_workflow

inputnode == "inputnode"
outputnode == "outputnode"
create_parameters_node == "Create_Parameters"
fslmerge == "SE_merge"
hmc_se == "SE_head_motion_corr"
fslsplit == "SE_split"
topup == "TopUp"
unwarp_mag == "TopUpApply"
inu_n4 == "SE_bias"
mag_bet == "SE_brain"
fmap_scale == "fmap_scale"
fmap_abs == "fmap_abs"
fmap_mul == "fmap_mul_mask"
fugue_unmask == "fmap_unmask"
se_png == "PNG_SE_corr"
datasink == "datasink"

\* The nodes, in the order se_pair_workflow creates them.
NodeOrder ==
    <<inputnode, outputnode, create_parameters_node, fslmerge, hmc_se, fslsplit,
      topup, unwarp_mag, inu_n4, mag_bet, fmap_scale, fmap_abs, fmap_mul,
      fugue_unmask, se_png, datasink>>

Range(seq) == {seq[x] : x \in 1..Len(seq)}

Nodes == Range(NodeOrder)

\* fields of the two IdentityInterface nodes
InputFields == <<"fieldmaps", "fieldmaps_meta", "sbref">>
OutputFields == <<"out_field", "fmap_rads", "fmap_mask", "mag_brain", "out_topup",
                  "fmap_unmasked">>

Conn(s, sp, d, dp) == [src |-> s, srcport |-> sp, dst |-> d, dstport |-> dp]

\* The first workflow.connect call, connection by connection.
connect_main ==
    << Conn(inputnode, "fieldmaps", fslmerge, "in_files"),
       Conn(fslmerge, "merged_file", hmc_se, "in_file"),
       Conn(inputnode, "sbref", hmc_se, "ref_file"),
       Conn(inputnode, "fieldmaps", create_parameters_node, "fieldmaps"),
       Conn(inputnode, "fieldmaps_meta", create_parameters_node, "fieldmaps_meta"),
       Conn(create_parameters_node, "parameters_file", topup, "encoding_file"),
       Conn(hmc_se, "out_file", topup, "in_file"),
       Conn(topup, "out_fieldcoef", unwarp_mag, "in_topup_fieldcoef"),
       Conn(topup, "out_movpar", unwarp_mag, "in_topup_movpar"),
       Conn(create_parameters_node, "parameters_file", unwarp_mag, "encoding_file"),
       Conn(hmc_se, "out_file", fslsplit, "in_file"),
       Conn(fslsplit, "out_files", unwarp_mag, "in_files"),
       Conn(unwarp_mag, "out_corrected", inu_n4, "input_image"),
       Conn(inu_n4, "output_image", mag_bet, "in_file"),
       Conn(topup, "out_field", fmap_scale, "in_file"),
       Conn(mag_bet, "mask_file", fmap_mul, "operand_file"),
       Conn(fmap_scale, "out_file", fmap_abs, "in_file"),
       Conn(fmap_abs, "out_file", fmap_mul, "in_file"),
       Conn(fmap_scale, "out_file", fugue_unmask, "fmap_in_file"),
       Conn(fmap_mul, "out_file", fugue_unmask, "mask_file"),
       Conn(topup, "out_field", outputnode, "out_field"),
       Conn(fmap_scale, "out_file", outputnode, "fmap_rads"),
       Conn(mag_bet, "out_file", outputnode, "mag_brain"),
       Conn(mag_bet, "mask_file", outputnode, "fmap_mask"),
       Conn(unwarp_mag, "out_corrected", outputnode, "out_topup"),
       Conn(fugue_unmask, "fmap_out_file", outputnode, "fmap_unmasked") >>

\* The second workflow.connect call (reports section).
connect_reports ==
    << Conn(unwarp_mag, "out_corrected", se_png, "overlay_file"),
       Conn(mag_bet, "mask_file", se_png, "in_file"),
       Conn(se_png, "out_file", datasink, "@corrected_SE_and_mask") >>

\* Without the connection fmap_unmask -> outputnode.fmap_unmasked.
ConnList_noUnmasked ==
    SelectSeq(connect_main, LAMBDA c : ~(c.src = fugue_unmask /\ c.dst = outputnode))
        \o connect_reports

\* Without the connection SE_brain -> PNG_SE_corr.in_file.
ConnList_noMaskToPng ==
    connect_main \o SelectSeq(connect_reports, LAMBDA c : c.src # mag_bet)

\* Without the connection SE_head_motion_corr -> TopUp.in_file.
ConnList_noHmcToTopup ==
    SelectSeq(connect_main, LAMBDA c : ~(c.src = hmc_se /\ c.dst = topup))
        \o connect_reports

\* With a second producer, Create_Parameters, connected to TopUp.in_file.
ConnList_secondProducer ==
    connect_main
        \o <<Conn(create_parameters_node, "parameters_file", topup, "in_file")>>
        \o connect_reports

\* Every connection of the workflow, in source order.
ConnList == connect_main \o connect_reports

Connections == Range(ConnList)

\* Input ports of a node: the fields of an identity node, else the ports
\* connections arrive at.
InPortNames(n) ==
    IF n = inputnode THEN Range(InputFields)
    ELSE IF n = outputnode THEN Range(OutputFields)
    ELSE {c.dstport : c \in {c \in Connections : c.dst = n}}

\* Output ports of a node: the fields of an identity node, else the ports
\* connections leave from.
OutPortNames(n) ==
    IF n = inputnode THEN Range(InputFields)
    ELSE IF n = outputnode THEN Range(OutputFields)
    ELSE {c.srcport : c \in {c \in Connections : c.src = n}}

InPorts == UNION {{<<n, p>> : p \in InPortNames(n)} : n \in Nodes}
OutPorts == UNION {{<<n, p>> : p \in OutPortNames(n)} : n \in Nodes}

\* Values are lists of strings; the empty list is "no value".
Null == <<>>

Preds(n) == {c.src : c \in {c \in Connections : c.dst = n}}

\* What a node yields on an output port when invoked with input values a:
\* an identity node hands the field through, any other node is a stub whose
\* marker names the node, the port and everything it was given.
RECURSIVE Tagged(_, _)
Tagged(ports, a) ==
    IF ports = {} THEN <<>>
    ELSE LET p == CHOOSE q \in ports : TRUE
         IN <<p, "=">> \o a[p] \o <<";">> \o Tagged(ports \ {p}, a)

Invoke(n, port, a) ==
    IF n \in {inputnode, outputnode} THEN a[port]
    ELSE <<n, ".", port, "(">> \o Tagged(DOMAIN a, a) \o <<")">>

\* The input values a node is invoked with, read from its input ports.
Gather(ins, n) == [p \in InPortNames(n) |-> ins[<<n, p>>]]

\* The input ports after node n completed with arguments a: every connection
\* leaving n has carried the value of its source port to its destination port.
Deliver(ins, n, a) ==
    [ip \in InPorts |->
        LET feeding == {c \in Connections :
                            c.src = n /\ c.dst = ip[1] /\ c.dstport = ip[2]}
        IN IF feeding = {} THEN ins[ip]
           ELSE Invoke(n, (CHOOSE c \in feeding : TRUE).srcport, a)]

\* The output ports after node n completed with arguments a.
Produce(outs, n, a) ==
    [op \in OutPorts |-> IF op[1] = n THEN Invoke(n, op[2], a) ELSE outs[op]]

\* The values supplied to the workflow's inputnode.
Supplied == [p \in Range(InputFields) |-> <<p>>]

InitInputs ==
    [ip \in InPorts |-> IF ip[1] = inputnode THEN Supplied[ip[2]] ELSE Null]

WfInit ==
    /\ started = {}
    /\ done = {}
    /\ args = [n \in Nodes |-> Gather([ip \in InPorts |-> Null], n)]
    /\ inputs = InitInputs
    /\ outputs = [op \in OutPorts |-> Null]

\* A node is invoked once every node connected to one of its inputs completed.
Start(n) ==
    /\ n \notin started
    /\ Preds(n) \subseteq done
    /\ started' = started \cup {n}
    /\ args' = [args EXCEPT ![n] = Gather(inputs, n)]
    /\ UNCHANGED <<done, inputs, outputs>>

\* The invocation of a node returns: its outputs are stored and delivered.
Finish(n) ==
    /\ n \in started
    /\ n \notin done
    /\ done' = done \cup {n}
    /\ outputs' = Produce(outputs, n, args[n])
    /\ inputs' = Deliver(inputs, n, args[n])
    /\ UNCHANGED <<started, args>>

WfNext == \E n \in Nodes : Start(n) \/ Finish(n)

\* The order a sequential engine runs the nodes in: repeatedly the first node
\* in creation order whose predecessors have all run.
RECURSIVE Topo(_)
Topo(placed) ==
    LET ready == {x \in 1..Len(NodeOrder) :
                    /\ NodeOrder[x] \notin Range(placed)
                    /\ Preds(NodeOrder[x]) \subseteq Range(placed)}
    IN IF ready = {} THEN placed
       ELSE Topo(Append(placed,
                        NodeOrder[CHOOSE x \in ready : \A y \in ready : x <= y]))

TopoOrder == Topo(<<>>)

\* The ports after the sequential run of the nodes order[1..upto].
RECURSIVE SeqRun(_, _)
SeqRun(order, upto) ==
    IF upto = 0 THEN [ins |-> InitInputs, outs |-> [op \in OutPorts |-> Null]]
    ELSE LET st == SeqRun(order, upto - 1)
             n == order[upto]
             a == Gather(st.ins, n)
         IN [ins |-> Deliver(st.ins, n, a), outs |-> Produce(st.outs, n, a)]

SeqFinal == SeqRun(TopoOrder, Len(TopoOrder))

\* ---------------------------------------------------------- specifications

\* create_encoding_file is not running; the workflow is about to be run.
InitWf ==
    /\ WfInit
    /\ fieldmaps = <<>>
    /\ fieldmaps_meta = <<>>
    /\ pc = "idle"
    /\ k = 0
    /\ meta = NoMeta
    /\ line_values = <<0, 0, 0, 0>>
    /\ shape = <<>>
    /\ i = 0
    /\ parameters_file = <<>>
    /\ row_series = <<>>
    /\ metas = <<>>
    /\ shapes = <<>>
    /\ err = "none"
    /\ result = "none"

\* create_encoding_file is called on its own; no workflow has been built.
Init ==
    /\ EncInit
    /\ started = {}
    /\ done = {}
    /\ args = <<>>
    /\ inputs = <<>>
    /\ outputs = <<>>

EncStep == EncNext /\ UNCHANGED wfVars

WfStep == WfNext /\ UNCHANGED encVars

\* create_encoding_file called on its own.
Spec == Init /\ [][EncStep]_vars

\* The assembled workflow run by the engine.
SpecWf == InitWf /\ [][WfStep]_vars

\* The engine keeps invoking nodes while one can start or is running.
SpecWfFair == SpecWf /\ WF_vars(WfStep)

\* ------------------------------------------ claims: create_encoding_file

\* The text the table shows for a TotalReadoutTime.
TimeText(h) == IF h = 5 THEN "0.05" ELSE IF h = 7 THEN "0.07" ELSE "?"

\* Column (1-based) of an axis letter: i, j, k are the x, y, z columns.
AxisColumn(c) == IF c = "i" THEN 1 ELSE IF c = "j" THEN 2 ELSE 3

\* The row the encoding table holds for a record with a valid code.
ExpectedRow(m) ==
    LET code == m.PhaseEncodingDirection
    IN [x \in 1..4 |->
            IF x = 4 THEN TimeText(m.TotalReadoutTime)
            ELSE IF x = AxisColumn(code[1])
                 THEN (IF Len(code) = 1 THEN "1" ELSE "-1")
                 ELSE "0"]

\* Number of 3-D volumes of an image of the given shape.
Volumes(sh) == IF Len(sh) >= 4 THEN sh[4] ELSE 1

\* Lines written for the s-th pair.
RowsOf(s) == {r \in 1..Len(parameters_file) : row_series[r] = s}

\* The s-th pair has been dealt with: its inner loop has ended.
SeriesEnded(s) == s < k \/ (s = k /\ pc \in {"zip", "done"})

RECURSIVE Copies(_, _)
Copies(row, n) == IF n = 0 THEN <<>> ELSE <<row>> \o Copies(row, n - 1)

RECURSIVE Blocks(_)
Blocks(upto) ==
    IF upto = 0 THEN <<>>
    ELSE Blocks(upto - 1) \o Copies(ExpectedRow(metas[upto]), Volumes(shapes[upto]))

AllValid == \A s \in 1..Len(metas) : metas[s].PhaseEncodingDirection \in ValidCodes

\* C1: for lists of equal length (with valid records) the returned table is,
\* in input order, one block per pair of V_k copies of the k-th record's row,
\* V_k being the number of volumes of the k-th image.
C1_BlocksOfVolumes ==
    (pc = "done" /\ Len(fieldmaps) = Len(fieldmaps_meta) /\ AllValid)
        => parameters_file = Blocks(Len(metas))

\* C2: every line written for a record whose code is one of i, i-, j, j-, k,
\* k- has exactly one non-zero axis column, the one of its letter, holding 1
\* for a one-character code and -1 for a two-character code, zeros in the
\* other two, and TotalReadoutTime as fourth column.
C2_AxisAndPolarity ==
    \A r \in 1..Len(parameters_file) :
        LET m == metas[row_series[r]]
            code == m.PhaseEncodingDirection
            line == parameters_file[r]
        IN code \in ValidCodes =>
            /\ Len(line) = 4
            /\ Cardinality({x \in 1..3 : line[x] # "0"}) = 1
            /\ line[AxisColumn(code[1])] = (IF Len(code) = 1 THEN "1" ELSE "-1")
            /\ line[4] = TimeText(m.TotalReadoutTime)

\* C2 witness: the table holds a line for a flipped k and a line for a plain j.
C2_Witness ==
    /\ \E r \in 1..Len(parameters_file) :
            metas[row_series[r]].PhaseEncodingDirection = <<"k", "-">>
    /\ \E r \in 1..Len(parameters_file) :
            metas[row_series[r]].PhaseEncodingDirection = <<"j">>

\* C3: a record whose code has a length other than 1 or 2 makes the function
\* fail, and no line is written for its pair.
C3_MalformedDirectionFails ==
    \A s \in 1..Len(metas) :
        Len(metas[s].PhaseEncodingDirection) \notin {1, 2}
            => (err # "none" /\ result = "none" /\ RowsOf(s) = {})

\* C4: a record whose axis letter is none of i, j, k makes the function fail
\* with the unknown-axis error (KeyError) instead of returning, and no line is
\* written for its pair.
C4_UnknownAxisFails ==
    \A s \in 1..Len(metas) :
        LET code == metas[s].PhaseEncodingDirection
        IN (Len(code) >= 1 /\ code[1] \notin {"i", "j", "k"})
            => /\ err = "KeyError"
               /\ pc = "raised"
               /\ result = "none"
               /\ RowsOf(s) = {}

\* C4 witness: the second record has axis x, after lines of the first pair.
C4_Witness ==
    /\ Len(metas) = 2
    /\ metas[2].PhaseEncodingDirection = <<"x">>
    /\ err = "KeyError"
    /\ RowsOf(1) # {}

\* C5: once a pair has been dealt with, the number of lines written for it is
\* 1 for an image without 4th dimension, else the extent of the 4th dimension.
C5_VolumeCount ==
    \A s \in 1..Len(shapes) :
        SeriesEnded(s) => Cardinality(RowsOf(s)) = Volumes(shapes[s])

\* A record that makes the function raise.
Raises(m) ==
    \/ Len(m.PhaseEncodingDirection) = 0
    \/ m.PhaseEncodingDirection[1] \notin {"i", "j", "k"}

\* C10: with lists of different lengths only the first min(len, len) pairs are
\* read and written, the mismatch raises nothing (an error comes from the
\* record just read), and the function returns with lines for exactly those
\* pairs.
C10_ZipTruncates ==
    Len(fieldmaps) # Len(fieldmaps_meta) =>
        LET n == Min(Len(fieldmaps), Len(fieldmaps_meta))
        IN /\ k <= n
           /\ Len(metas) <= n
           /\ Len(shapes) <= n
           /\ \A r \in 1..Len(row_series) : row_series[r] <= n
           /\ err # "none" => (Len(metas) = k /\ k >= 1 /\ Raises(metas[k]))
           /\ (pc = "zip" /\ k = n) => ENABLED Return
           /\ pc = "done" =>
                /\ result = "parameters.txt"
                /\ err = "none"
                /\ {row_series[r] : r \in 1..Len(row_series)} = 1..n

\* C10 witness: two images, one record, returned with the lines of one pair.
C10_Witness ==
    /\ Len(fieldmaps) = 2
    /\ Len(fieldmaps_meta) = 1
    /\ pc = "done"
    /\ RowsOf(1) # {}

\* --------------------------------------------- claims: se_pair_workflow

OutputsBound == \A p \in Range(OutputFields) : outputs[<<outputnode, p>>] # Null

OutputsProduced ==
    \A p \in Range(OutputFields) :
        \E c \in Connections : c.dst = outputnode /\ c.dstport = p

\* C6: with the three inputnode fields supplied and every invocation
\* succeeding, the run eventually ends with all six outputnode fields bound,
\* each of them fed by a connection.
C6_OutputsEventuallyBound == <>(done = Nodes /\ OutputsBound /\ OutputsProduced)

\* C6 witness: outputnode has completed with six non-null fields.
C6_Witness == outputnode \in done /\ OutputsBound

Received(p) == inputs[<<outputnode, p>>] # Null

\* C7 as stated: PNG_SE_corr and datasink start only after all six outputnode
\* fields have received their values.
C7_AfterAllOutputs ==
    \A n \in {se_png, datasink} :
        n \in started => \A p \in Range(OutputFields) : Received(p)

\* C7 amended: PNG_SE_corr starts only after TopUpApply and SE_brain have
\* completed, hence after out_field, out_topup, mag_brain and fmap_mask have
\* been received, and datasink only after PNG_SE_corr has completed.
C7_AfterConsumedOutputs ==
    /\ se_png \in started =>
            /\ {unwarp_mag, mag_bet} \subseteq done
            /\ \A p \in {"out_field", "out_topup", "mag_brain", "fmap_mask"} :
                    Received(p)
    /\ datasink \in started => se_png \in done

\* C7 witness: datasink has started while fmap_unmasked is still missing.
C7_Witness == datasink \in started /\ ~Received("fmap_unmasked")

RECURSIVE Reach(_)
Reach(S) ==
    LET next == S \cup {c.dst : c \in {c \in Connections : c.src \in S}}
    IN IF next = S THEN S ELSE Reach(next)

\* No node is downstream of itself.
Acyclic ==
    \A n \in Nodes : n \notin Reach({c.dst : c \in {c \in Connections : c.src = n}})

\* C8: the graph is acyclic and no node starts before the source of every
\* connection into it has completed: TopUp after Create_Parameters and
\* SE_head_motion_corr, TopUpApply after TopUp, Create_Parameters and SE_split,
\* and every node after the value of each of its connected ports was delivered.
C8_CausalOrder ==
    /\ Acyclic
    /\ topup \in started => {create_parameters_node, hmc_se} \subseteq done
    /\ unwarp_mag \in started => {topup, create_parameters_node, fslsplit} \subseteq done
    /\ \A c \in Connections :
            c.dst \in started => (c.src \in done /\ args[c.dst][c.dstport] # Null)

\* C8 witness: TopUpApply is running.
C8_Witness == unwarp_mag \in started /\ unwarp_mag \notin done

\* C9: whatever the interleaving, every input port that holds a value, every
\* argument a node was invoked with and the final outputnode fields are those
\* of the sequential run in topological order.
C9_SameAsSequential ==
    /\ Len(TopoOrder) = Cardinality(Nodes)
    /\ \A ip \in InPorts : inputs[ip] # Null => inputs[ip] = SeqFinal.ins[ip]
    /\ \A n \in started : args[n] = Gather(SeqFinal.ins, n)
    /\ \A n \in done : \A p \in OutPortNames(n) :
            outputs[<<n, p>>] = SeqFinal.outs[<<n, p>>]
    /\ done = Nodes => (OutputsBound /\ outputs = SeqFinal.outs)

\* C9 witness: Create_Parameters and SE_head_motion_corr run at the same time.
C9_Witness ==
    /\ {create_parameters_node, hmc_se} \subseteq started
    /\ {create_parameters_node, hmc_se} \cap done = {}

====
